---------------------------- MODULE Spec2Model ----------------------------
(***************************************************************************)
(* Model of the Engine classes of pyml_toolbox (src/pyml_utils/engines.py  *)
(* and src/ml_utils/engines.py) and of the ConfHandler they persist        *)
(* through: stored logins, driver URL templates, engine definitions and    *)
(* the cache of database sessions.                                         *)
(*                                                                         *)
(* A Python str is modelled as the sequence of its code points, so that    *)
(* base64, UTF-8, the placeholder regular expression and str.format are    *)
(* computed character by character.  A dict is a function whose DOMAIN is  *)
(* its key set; the empty dict is << >>.                                   *)
(***************************************************************************)
EXTENDS Integers, Sequences, FiniteSets, TLC

VARIABLES
    variant,    \* "pyml_utils" or "ml_utils": which package's Engine this is
    is_encode,  \* Engine.is_encode
    conf,       \* ConfHandler._conf, the in-memory configuration document
    file,       \* the JSON file: [exists, doc], doc being the JSON it holds
    sessions,   \* Engine.sessions: source -> connection handle
    created,    \* number of connection handles create_engine has returned
    origin,     \* history: handle -> the engine definition it was built from
    last,       \* the operation that returned last, with its arguments and result
    latest,     \* history: login name -> (user, password) of its latest set_login
    pc,         \* per thread: position inside a concurrent get_engine call
    tsrc,       \* per thread: the source it asked for
    turl,       \* per thread: the connection string it built
    tret        \* per thread: what its get_engine returned

vars == <<variant, is_encode, conf, file, sessions, created, origin, last,
          latest, pc, tsrc, turl, tret>>

-----------------------------------------------------------------------------
(* Python values *)

\* None, as a value comparable with every str (no code point is negative).
None == <<-1>>

\* dict.get(k): the value, or None when the key is missing.
Get(d, k) == IF k \in DOMAIN d THEN d[k] ELSE None

\* dict.update(e) on d: the entries of e override those of d.
Update(d, e) == e @@ d

\* Python truthiness of a str-or-None value: `if driver:`.
Truthy(v) == v # None /\ v # << >>

\* Key and literal strings of the source, as code points.
K_driver   == <<100,114,105,118,101,114>>            \* 'driver'
K_login    == <<108,111,103,105,110>>                \* 'login'
K_user     == <<117,115,101,114>>                    \* 'user'
K_password == <<112,97,115,115,119,111,114,100>>     \* 'password'
K_host     == <<104,111,115,116>>                    \* 'host'
K_database == <<100,97,116,97,98,97,115,101>>        \* 'database'

\* '{driver}://{user}:{password}@{host}/{database}'
DefaultUrl ==
    <<123,100,114,105,118,101,114,125,58,47,47,123,117,115,101,114,125,58,
      123,112,97,115,115,119,111,114,100,125,64,123,104,111,115,116,125,47,
      123,100,97,116,97,98,97,115,101,125>>

-----------------------------------------------------------------------------
(* str.encode('utf-8') and bytes.decode('utf-8') *)

RECURSIVE Utf8Encode(_)
Utf8Encode(s) ==
    IF s = << >> THEN << >>
    ELSE LET c == Head(s)
             b == IF c < 128 THEN <<c>>
                  ELSE IF c < 2048 THEN <<192 + (c \div 64), 128 + (c % 64)>>
                  ELSE IF c < 65536
                       THEN <<224 + (c \div 4096), 128 + ((c \div 64) % 64),
                              128 + (c % 64)>>
                       ELSE <<240 + (c \div 262144), 128 + ((c \div 4096) % 64),
                              128 + ((c \div 64) % 64), 128 + (c % 64)>>
         IN  b \o Utf8Encode(Tail(s))

IsCont(b) == b >= 128 /\ b <= 191

\* The strict decoder: [ok |-> FALSE] is UnicodeDecodeError.
RECURSIVE Utf8Decode(_)
Utf8Decode(bs) ==
    IF bs = << >> THEN [ok |-> TRUE, val |-> << >>]
    ELSE LET b0 == bs[1]
             n  == IF b0 < 128 THEN 1
                   ELSE IF b0 >= 194 /\ b0 <= 223 THEN 2
                   ELSE IF b0 >= 224 /\ b0 <= 239 THEN 3
                   ELSE IF b0 >= 240 /\ b0 <= 244 THEN 4
                   ELSE 0
             wellFormed ==
                 /\ n > 0
                 /\ Len(bs) >= n
                 /\ \A i \in 2..n : IsCont(bs[i])
                 /\ (b0 = 224 => bs[2] >= 160)
                 /\ (b0 = 237 => bs[2] <= 159)
                 /\ (b0 = 240 => bs[2] >= 144)
                 /\ (b0 = 244 => bs[2] <= 143)
             cp == IF n = 1 THEN b0
                   ELSE IF n = 2 THEN (b0 - 192) * 64 + (bs[2] - 128)
                   ELSE IF n = 3
                        THEN (b0 - 224) * 4096 + (bs[2] - 128) * 64 + (bs[3] - 128)
                        ELSE (b0 - 240) * 262144 + (bs[2] - 128) * 4096
                             + (bs[3] - 128) * 64 + (bs[4] - 128)
         IN  IF ~wellFormed THEN [ok |-> FALSE, val |-> << >>]
             ELSE LET rest == Utf8Decode(SubSeq(bs, n + 1, Len(bs)))
                  IN  IF rest.ok THEN [ok |-> TRUE, val |-> <<cp>> \o rest.val]
                      ELSE rest

-----------------------------------------------------------------------------
(* base64.b64encode and base64.b64decode (validate=False) *)

\* The character of a 6-bit value: A-Z a-z 0-9 + /
B64Char(i) ==
    IF i < 26 THEN 65 + i
    ELSE IF i < 52 THEN 97 + (i - 26)
    ELSE IF i < 62 THEN 48 + (i - 52)
    ELSE IF i = 62 THEN 43 ELSE 47

\* The 6-bit value of a character, 64 for a character outside the alphabet.
B64Index(c) ==
    IF c >= 65 /\ c <= 90 THEN c - 65
    ELSE IF c >= 97 /\ c <= 122 THEN c - 97 + 26
    ELSE IF c >= 48 /\ c <= 57 THEN c - 48 + 52
    ELSE IF c = 43 THEN 62
    ELSE IF c = 47 THEN 63 ELSE 64

RECURSIVE B64EncodeBytes(_)
B64EncodeBytes(bs) ==
    IF bs = << >> THEN << >>
    ELSE IF Len(bs) = 1
         THEN <<B64Char(bs[1] \div 4), B64Char((bs[1] % 4) * 16), 61, 61>>
    ELSE IF Len(bs) = 2
         THEN <<B64Char(bs[1] \div 4),
                B64Char((bs[1] % 4) * 16 + (bs[2] \div 16)),
                B64Char((bs[2] % 16) * 4), 61>>
    ELSE <<B64Char(bs[1] \div 4),
           B64Char((bs[1] % 4) * 16 + (bs[2] \div 16)),
           B64Char((bs[2] % 16) * 4 + (bs[3] \div 64)),
           B64Char(bs[3] % 64)>> \o B64EncodeBytes(SubSeq(bs, 4, Len(bs)))

\* binascii.a2b_base64 in its lenient mode: characters outside the alphabet
\* are skipped, a complete pad sequence ends the input, and input that ends
\* inside a quad is binascii.Error ([ok |-> FALSE]).
\* quad: position in the current quad, left: bits carried, pads: '=' seen.
RECURSIVE B64DecodeFrom(_, _, _, _, _)
B64DecodeFrom(cs, quad, left, pads, out) ==
    IF cs = << >> THEN [ok |-> quad = 0, val |-> out]
    ELSE LET c == Head(cs)
             v == B64Index(c)
         IN  IF c = 61
             THEN IF quad >= 2 /\ quad + pads + 1 >= 4
                  THEN [ok |-> TRUE, val |-> out]
                  ELSE B64DecodeFrom(Tail(cs), quad, left,
                                     IF quad >= 2 THEN pads + 1 ELSE pads, out)
             ELSE IF v = 64
             THEN B64DecodeFrom(Tail(cs), quad, left, pads, out)
             ELSE IF quad = 0
             THEN B64DecodeFrom(Tail(cs), 1, v, 0, out)
             ELSE IF quad = 1
             THEN B64DecodeFrom(Tail(cs), 2, v % 16, 0,
                                Append(out, left * 4 + (v \div 16)))
             ELSE IF quad = 2
             THEN B64DecodeFrom(Tail(cs), 3, v % 4, 0,
                                Append(out, left * 16 + (v \div 4)))
             ELSE B64DecodeFrom(Tail(cs), 0, 0, 0, Append(out, left * 64 + v))

\* b64.b64encode(s.encode("utf-8")).decode("utf-8")
B64EncodeStr(s) == B64EncodeBytes(Utf8Encode(s))

\* b64.b64decode(s.encode("utf-8")).decode("utf-8"); [ok |-> FALSE] when
\* either step raises (s = None raises AttributeError on .encode).
B64DecodeStr(s) ==
    IF s = None THEN [ok |-> FALSE, val |-> << >>]
    ELSE LET raw == B64DecodeFrom(Utf8Encode(s), 0, 0, 0, << >>)
         IN  IF raw.ok THEN Utf8Decode(raw.val) ELSE [ok |-> FALSE, val |-> << >>]

-----------------------------------------------------------------------------
(* Connection-string templates: re.findall(r"{(\w+)}", url) and url.format *)

\* \w for the ASCII characters templates are written in: letters, digits, '_'.
IsWord(c) ==
    \/ c >= 48 /\ c <= 57
    \/ c >= 65 /\ c <= 90
    \/ c >= 97 /\ c <= 122
    \/ c = 95

IsDigit(c) == c >= 48 /\ c <= 57

\* Length of the longest run of \w characters of s that starts at index i.
RECURSIVE WordRun(_, _)
WordRun(s, i) ==
    IF i <= Len(s) /\ IsWord(s[i]) THEN 1 + WordRun(s, i + 1) ELSE 0

\* The names re.findall(r"{(\w+)}", s) returns, scanning from index i: a '{',
\* a longest non-empty run of \w, a '}'; matches do not overlap.
RECURSIVE FindPlaceholders(_, _)
FindPlaceholders(s, i) ==
    IF i > Len(s) THEN {}
    ELSE IF s[i] # 123 THEN FindPlaceholders(s, i + 1)
    ELSE LET n == WordRun(s, i + 1)
         IN  IF n >= 1 /\ i + n + 1 <= Len(s) /\ s[i + n + 1] = 125
             THEN {SubSeq(s, i + 1, i + n)} \cup FindPlaceholders(s, i + n + 2)
             ELSE FindPlaceholders(s, i + 1)

\* Index of the first '}' of s at or after i, 0 when there is none.
RECURSIVE ClosingBrace(_, _)
ClosingBrace(s, i) ==
    IF i > Len(s) THEN 0
    ELSE IF s[i] = 125 THEN i ELSE ClosingBrace(s, i + 1)

\* str(v) as format() renders a field value.
StrOf(v) == IF v = None THEN <<78,111,110,101>> ELSE v

\* Characters that start format syntax this model does not cover when they
\* occur inside a replacement field: '{' '[' '!' ':' '.'
FieldSyntax == {123, 91, 33, 58, 46}

\* url.format(**kw) from index i on, out being the text produced so far.
\* [ok |-> FALSE] is the exception format raises: ValueError for a single
\* '{' or '}', IndexError for an empty or all-digit field name (a positional
\* argument, and none is passed), KeyError for a name kw does not hold.
\* '{{' and '}}' are the escapes of '{' and '}'.
RECURSIVE FormatFrom(_, _, _, _)
FormatFrom(s, i, kw, out) ==
    IF i > Len(s) THEN [ok |-> TRUE, val |-> out]
    ELSE IF s[i] # 123 /\ s[i] # 125
         THEN FormatFrom(s, i + 1, kw, Append(out, s[i]))
    ELSE IF i = Len(s) THEN [ok |-> FALSE, val |-> << >>]
    ELSE IF s[i + 1] = s[i] THEN FormatFrom(s, i + 2, kw, Append(out, s[i]))
    ELSE IF s[i] = 125 THEN [ok |-> FALSE, val |-> << >>]
    ELSE LET j    == ClosingBrace(s, i + 1)
             name == SubSeq(s, i + 1, j - 1)
         IN  IF j = 0 THEN [ok |-> FALSE, val |-> << >>]
             ELSE IF \E k \in 1..Len(name) : name[k] \in FieldSyntax
                  THEN [ok |-> FALSE, val |-> << >>]
             ELSE IF \A k \in 1..Len(name) : IsDigit(name[k])
                  THEN [ok |-> FALSE, val |-> << >>]
             ELSE IF name \notin DOMAIN kw THEN [ok |-> FALSE, val |-> << >>]
             ELSE FormatFrom(s, j + 1, kw, out \o StrOf(kw[name]))

Format(s, kw) == FormatFrom(s, 1, kw, << >>)

-----------------------------------------------------------------------------
(* json.dump and json.load of the configuration document *)

\* A lowercase hexadecimal digit, and the value of a hexadecimal digit.
HexChar(n) == IF n < 10 THEN 48 + n ELSE 87 + n

HexVal(c) ==
    IF c >= 48 /\ c <= 57 THEN c - 48
    ELSE IF c >= 97 /\ c <= 102 THEN c - 87 ELSE c - 55

\* The escape \uXXXX of a 16-bit value.
JsonU(n) ==
    <<92, 117, HexChar(n \div 4096), HexChar((n \div 256) % 16),
      HexChar((n \div 16) % 16), HexChar(n % 16)>>

\* Mutant of JsonEscapeChar: a character above U+FFFF is written as one
\* \uXXXX of its low 16 bits.
JsonEscapeCharNarrow(c) ==
    IF c = 34 THEN <<92, 34>>
    ELSE IF c = 92 THEN <<92, 92>>
    ELSE IF c >= 32 /\ c <= 126 THEN <<c>>
    ELSE JsonU(c % 65536)

\* json.dump with ensure_ascii (the default): '"' and '\' are escaped with a
\* backslash, the control characters \b \t \n \f \r by their letter, every
\* other character outside ' '..'~' as \uXXXX, by a surrogate pair above
\* U+FFFF.
JsonEscapeChar(c) ==
    IF c = 34 THEN <<92, 34>>
    ELSE IF c = 92 THEN <<92, 92>>
    ELSE IF c = 8 THEN <<92, 98>>
    ELSE IF c = 9 THEN <<92, 116>>
    ELSE IF c = 10 THEN <<92, 110>>
    ELSE IF c = 12 THEN <<92, 102>>
    ELSE IF c = 13 THEN <<92, 114>>
    ELSE IF c >= 32 /\ c <= 126 THEN <<c>>
    ELSE IF c < 65536 THEN JsonU(c)
    ELSE JsonU(55296 + ((c - 65536) \div 1024))
         \o JsonU(56320 + ((c - 65536) % 1024))

\* The characters json.dump writes between the quotes for str s.
RECURSIVE JsonEncodeStr(_)
JsonEncodeStr(s) ==
    IF s = << >> THEN << >>
    ELSE JsonEscapeChar(Head(s)) \o JsonEncodeStr(Tail(s))

\* The character a one-letter escape stands for.
JsonUnescape(c) ==
    IF c = 98 THEN 8
    ELSE IF c = 116 THEN 9
    ELSE IF c = 110 THEN 10
    ELSE IF c = 102 THEN 12
    ELSE IF c = 114 THEN 13
    ELSE c

\* The value of the four hexadecimal digits of cs that start at index i.
Hex4(cs, i) ==
    HexVal(cs[i]) * 4096 + HexVal(cs[i + 1]) * 256 + HexVal(cs[i + 2]) * 16
    + HexVal(cs[i + 3])

\* json.load of the characters between the quotes, from index i on: a high
\* surrogate escape directly followed by a low surrogate escape is one
\* character.
RECURSIVE JsonDecodeFrom(_, _)
JsonDecodeFrom(cs, i) ==
    IF i > Len(cs) THEN << >>
    ELSE IF cs[i] # 92 THEN <<cs[i]>> \o JsonDecodeFrom(cs, i + 1)
    ELSE IF cs[i + 1] # 117
         THEN <<JsonUnescape(cs[i + 1])>> \o JsonDecodeFrom(cs, i + 2)
    ELSE LET uni == Hex4(cs, i + 2)
         IN  IF /\ uni >= 55296 /\ uni <= 56319
                /\ i + 11 <= Len(cs) /\ cs[i + 6] = 92 /\ cs[i + 7] = 117
                /\ Hex4(cs, i + 8) >= 56320 /\ Hex4(cs, i + 8) <= 57343
             THEN <<65536 + (uni - 55296) * 1024 + (Hex4(cs, i + 8) - 56320)>>
                  \o JsonDecodeFrom(cs, i + 12)
             ELSE <<uni>> \o JsonDecodeFrom(cs, i + 6)

JsonDecodeStr(cs) == JsonDecodeFrom(cs, 1)

\* A value of the document that is a str, not a mapping, is modelled as the
\* one-entry function Scalar(s); no key of a mapping is <<-2>>.
ScalarKey == <<-2>>

Scalar(s) == ScalarKey :> s

\* isinstance(v, dict)
IsDict(v) == ScalarKey \notin DOMAIN v

\* A str as json.dump writes it (dump = TRUE) or as json.load reads it; None
\* is null either way.
MapStr(dump, s) ==
    IF s = None THEN None
    ELSE IF dump THEN JsonEncodeStr(s) ELSE JsonDecodeStr(s)

\* Every key and every value of a mapping of strs, dumped or loaded.
MapDict(dump, d) ==
    [fk \in {MapStr(dump, k) : k \in DOMAIN d} |->
        MapStr(dump, d[CHOOSE k \in DOMAIN d : MapStr(dump, k) = fk])]

\* The strs of one stored entry, dumped or loaded: a login (user, password
\* and the is_encode flag), an engine definition (a mapping of strs) or a
\* template.
MapEntry(dump, key, e) ==
    IF key = "login"
    THEN [f \in DOMAIN e |->
             IF f = "is_encode" THEN e[f] ELSE MapStr(dump, e[f])]
    ELSE IF key = "engine" THEN MapDict(dump, e)
    ELSE MapStr(dump, e)

\* Every name and str of the document, dumped or loaded.
MapDoc(dump, doc) ==
    [key \in DOMAIN doc |->
        IF IsDict(doc[key])
        THEN [fn \in {MapStr(dump, n) : n \in DOMAIN doc[key]} |->
                 MapEntry(dump, key,
                          doc[key][CHOOSE n \in DOMAIN doc[key] :
                                       MapStr(dump, n) = fn])]
        ELSE Scalar(MapStr(dump, doc[key][ScalarKey]))]

\* The text json.dump writes for the document, and the document json.load
\* reads from it.
JsonDump(doc) == MapDoc(TRUE, doc)

JsonLoad(text) == MapDoc(FALSE, text)

-----------------------------------------------------------------------------
(* ConfHandler: the document and its persistence *)

\* The file does not exist.
NoFile == [exists |-> FALSE, doc |-> << >>]

\* The file as save_conf leaves it: json.dump of the whole document.
Saved(doc) == [exists |-> TRUE, doc |-> JsonDump(doc)]

\* load_conf: the document of the file; a missing file gives a falsy value
\* (None in pyml_utils, {} in ml_utils), which Engine.__init__ replaces.
LoadConf(f) == IF f.exists THEN JsonLoad(f.doc) ELSE << >>

\* Mutant of ConfUpdateKey: an engine definition that exists is merged with
\* the new one, field by field, rather than replaced.
ConfUpdateKeyDeep(doc, key, value) ==
    IF key \notin DOMAIN doc THEN (key :> value) @@ doc
    ELSE IF key # "engine" THEN (key :> Update(doc[key], value)) @@ doc
    ELSE (key :> [k \in DOMAIN value \cup DOMAIN doc[key] |->
                     IF k \in DOMAIN value /\ k \in DOMAIN doc[key]
                     THEN Update(doc[key][k], value[k])
                     ELSE IF k \in DOMAIN value THEN value[k] ELSE doc[key][k]])
         @@ doc

\* Mutant of ConfUpdateKey: the new value always replaces the stored one.
ConfUpdateKeyReplace(doc, key, value) == (key :> value) @@ doc

\* ConfHandler.update_key (pyml_utils) and ConfHandler.set_key (ml_utils): a
\* missing key is set, a mapping is merged into a mapping one level deep, and
\* any other value replaces the old one.
ConfUpdateKey(doc, key, value) ==
    IF key \notin DOMAIN doc THEN (key :> value) @@ doc
    ELSE IF IsDict(doc[key]) /\ IsDict(value)
         THEN (key :> Update(doc[key], value)) @@ doc
    ELSE (key :> value) @@ doc

\* ConfHandler._conf after load_conf over a missing file in pyml_utils: None
\* (FileHandler.read returns None); in ml_utils the {} of __init__ stays.
ConfNone == [none |-> TRUE]

IsConfNone(c) == DOMAIN c = {"none"}

\* ConfHandler.load_conf
ReadConf(v, f) ==
    IF f.exists THEN JsonLoad(f.doc)
    ELSE IF v = "pyml_utils" THEN ConfNone ELSE << >>

\* The name of the template collection in the document.
TmplKey(v) == IF v = "pyml_utils" THEN "driver" ELSE "url"

\* The document Engine.__init__ stores when the loaded one is empty.
EmptyDoc(v) == ("login" :> << >>) @@ ("engine" :> << >>) @@ (TmplKey(v) :> << >>)

-----------------------------------------------------------------------------
(* Engine: logins *)

\* Mutant of EncodeLogin: the fields are encoded whatever the flag says.
EncodeLoginAlways(flag, s) == B64EncodeStr(s)

\* set_login's encoding of one field.
EncodeLogin(flag, s) == IF flag THEN B64EncodeStr(s) ELSE s

\* The entry set_login stores.
LoginEntry(flag, user, password) ==
    [user |-> EncodeLogin(flag, user), password |-> EncodeLogin(flag, password),
     is_encode |-> flag]

\* entry.get('is_encode', False)
StoredIsEncode(e) == IF "is_encode" \in DOMAIN e THEN e.is_encode ELSE FALSE

\* Whether the try block of get_login_json raises for entry e.
DecodeFails(e) ==
    StoredIsEncode(e) /\ (~B64DecodeStr(e.user).ok \/ ~B64DecodeStr(e.password).ok)

\* Mutant of GetLoginJson: the dict is built outside the test for the entry,
\* so an unknown login gives user and password None.
GetLoginJsonUnchecked(doc, login) ==
    IF login \in DOMAIN doc.login
    THEN (K_user :> doc.login[login].user) @@ (K_password :> doc.login[login].password)
    ELSE (K_user :> None) @@ (K_password :> None)

\* get_login_json: the user is decoded first, then the password; an exception
\* leaves the fields assigned so far and the dict is built all the same.
GetLoginJson(doc, login) ==
    IF login \in DOMAIN doc.login
    THEN LET e  == doc.login[login]
             du == B64DecodeStr(e.user)
             dp == B64DecodeStr(e.password)
             user == IF StoredIsEncode(e) /\ du.ok THEN du.val ELSE e.user
             password == IF StoredIsEncode(e) /\ du.ok /\ dp.ok
                         THEN dp.val ELSE e.password
         IN  (K_user :> user) @@ (K_password :> password)
    ELSE << >>

\* get_login: the pair, (None, None) when get_login_json gave the empty dict.
GetLogin(doc, login) ==
    LET d == GetLoginJson(doc, login)
    IN  IF d # << >> THEN <<Get(d, K_user), Get(d, K_password)>>
        ELSE <<None, None>>

ListLogins(doc) == DOMAIN doc.login

-----------------------------------------------------------------------------
(* Engine: driver templates and engine definitions *)

\* Mutant of SetDriverUrl: an omitted url is stored as the empty template.
SetDriverUrlNoDefault(url) == IF url = None THEN << >> ELSE url

\* set_driver / set_url: the template stored for the url argument.
SetDriverUrl(url) == IF url = None THEN DefaultUrl ELSE url

\* get_driver / get_url look the driver up in conf.get_key('driver') /
\* conf.get_key('url'); get_key returns None when the document has no such
\* key, and None has no get: AttributeError.
DriverLookupRaises(doc, v) == TmplKey(v) \notin DOMAIN doc

\* get_driver / get_url, where the lookup does not raise
GetDriver(doc, v, driver) ==
    LET url == IF DriverLookupRaises(doc, v) THEN None
               ELSE Get(doc[TmplKey(v)], driver)
    IN  IF url = None THEN DefaultUrl ELSE url

\* list_drivers / list_url: the collection get_key returns, None without one
ListDrivers(doc, v) ==
    IF DriverLookupRaises(doc, v) THEN None ELSE doc[TmplKey(v)]

ListEngines(doc) == DOMAIN doc.engine

\* get_engine_json: the stored fields, then the login's user and password,
\* then (pyml_utils only) the template under the driver's name.
GetEngineJson(doc, v, source) ==
    IF source \in DOMAIN doc.engine
    THEN LET def    == doc.engine[source]
             login  == Get(def, K_login)
             driver == Get(def, K_driver)
             d1     == IF Truthy(login) THEN Update(def, GetLoginJson(doc, login))
                       ELSE def
         IN  IF v = "pyml_utils" /\ Truthy(driver)
             THEN Update(d1, driver :> GetDriver(doc, v, driver))
             ELSE d1
    ELSE << >>

\* get_engine_json raises: pyml_utils calls get_driver for the driver of the
\* definition.
EngineJsonRaises(doc, v, source) ==
    /\ v = "pyml_utils"
    /\ source \in DOMAIN doc.engine
    /\ Truthy(Get(doc.engine[source], K_driver))
    /\ DriverLookupRaises(doc, v)

\* get_engine raises on the lookup of the template: through get_engine_json
\* in pyml_utils, in its own call of get_url in ml_utils.
EngineLookupRaises(doc, v, source) ==
    /\ source \in DOMAIN doc.engine
    /\ Truthy(Get(doc.engine[source], K_driver))
    /\ DriverLookupRaises(doc, v)

\* The driver get_engine reads from the merged fields.
EngineDriver(doc, v, source) == Get(GetEngineJson(doc, v, source), K_driver)

\* dict_url of get_engine: every placeholder of url mapped to '', overlaid
\* with the merged fields.
DictUrl(url, dict_engine) ==
    Update([n \in FindPlaceholders(url, 1) |-> << >>], dict_engine)

\* url.format(**dict_url); the connection string get_engine passes to
\* create_engine is BuildUrl.
FormatUrl(url, dict_engine) == Format(url, DictUrl(url, dict_engine))

\* The template of the driver named in the merged fields, formatted with them.
UrlOfFields(doc, v, dict_engine) ==
    FormatUrl(GetDriver(doc, v, Get(dict_engine, K_driver)), dict_engine)

BuildUrl(doc, v, source) == UrlOfFields(doc, v, GetEngineJson(doc, v, source))

-----------------------------------------------------------------------------
(* Engine: the session cache *)

\* sessions.get(source) when there is no entry: None.
NoHandle == 0

\* self.sessions.get(source)
SessionOf(sess, source) == IF source \in DOMAIN sess THEN sess[source] ELSE NoHandle

\* What the 'select 1' round trip of is_active can do: nothing is probed
\* without an entry; with one, the database answers 1 or the probe fails.
ProbeOutcomes(sess, source) ==
    IF source \in DOMAIN sess THEN {"ok", "fail"} ELSE {"none"}

\* Mutant of IsActive: a cached entry counts as active whatever the probe did.
IsActiveIfCached(sess, source, probe) == source \in DOMAIN sess

\* Mutant of IsActive: the result of the probe is dropped.
IsActiveNever(sess, source, probe) == FALSE

\* is_active: an entry exists and the probe on it answered 1; every failure
\* of the probe is caught and gives False.
IsActive(sess, source, probe) == source \in DOMAIN sess /\ probe = "ok"

\* Mutant of Evict: set_engine opens the session of the source at once.
EvictAndOpen(v, sess, source) == (source :> 0) @@ sess

\* Mutant of Evict: set_engine leaves the cache alone in both packages.
EvictNever(v, sess, source) == sess

\* Mutant of Evict: set_engine empties the cache.
EvictAll(v, sess, source) == << >>

\* set_engine's eviction: pyml_utils deletes the entry of source, ml_utils
\* leaves the cache alone.
Evict(v, sess, source) ==
    IF v = "pyml_utils" /\ source \in DOMAIN sess
    THEN [s \in DOMAIN sess \ {source} |-> sess[s]]
    ELSE sess

-----------------------------------------------------------------------------
(* Bounds and inputs *)

\* create_engine is called at most this many times in one behaviour.
MaxHandles == 2

\* Longest password passed to set_login.
MaxLen == 1

\* Number of threads calling get_engine concurrently.
NThreads == 2

Threads == 1..NThreads

Variants == {"pyml_utils", "ml_utils"}

\* 'x', 'y'
S_x == <<120>>
S_y == <<121>>

Sources == {S_x, S_y}

\* 'l1', 'l2'
LoginNames == {<<108,49>>, <<108,50>>}

\* Characters of 1, 2 and 3 UTF-8 bytes: 'a', e-acute, the euro sign.
Alphabet == {97, 233, 8364}

Texts(n) == UNION {[1..k -> Alphabet] : k \in 0..n}

\* '', 'a'
UserInputs == {<< >>, <<97>>}

PasswordInputs == Texts(MaxLen)

\* 'pg', 'sqlite'
DriverNames == {<<112,103>>, <<115,113,108,105,116,101>>}

\* '{driver}://{database}'
SqliteUrl ==
    <<123,100,114,105,118,101,114,125,58,47,47,123,100,97,116,97,98,97,115,101,125>>

\* '{driver}://{0}': a placeholder whose identifier is a number
NumberedUrl == <<123,100,114,105,118,101,114,125,58,47,47,123,48,125>>

\* The url argument of set_driver: omitted, or one of two templates.
UrlInputs == {None, SqliteUrl, NumberedUrl}

\* The keyword arguments of set_engine: none; driver='sqlite', database='';
\* driver='pg', login='l1', host='h'.
EngineInputs ==
    { << >>,
      (K_driver :> <<115,113,108,105,116,101>>) @@ (K_database :> << >>),
      (K_driver :> <<112,103>>) @@ (K_login :> <<108,49>>) @@ (K_host :> <<104>>) }

\* driver='sqlite', database=''
SqliteEngine == (K_driver :> <<115,113,108,105,116,101>>) @@ (K_database :> << >>)

\* Definitions on the stored template of 'sqlite' and on the default
\* template of 'pg' with login 'l1'.
AllEngines ==
    { SqliteEngine,
      (K_driver :> <<112,103>>) @@ (K_login :> <<108,49>>) @@ (K_host :> <<104>>) }

\* 'sqlite://', the in-memory database: a template without placeholders
SqliteMemUrl == <<115,113,108,105,116,101,58,47,47>>

\* A document an earlier Engine of the same package left: login 'l2', the
\* template of 'sqlite', and engine 'y' defined on it.
DocAll(v) ==
    ("login" :> (<<108,50>> :> LoginEntry(TRUE, <<97>>, <<98>>)))
    @@ (TmplKey(v) :> (<<115,113,108,105,116,101>> :> SqliteMemUrl))
    @@ ("engine" :> (S_y :> SqliteEngine))

\* The other package.
OtherVariant(v) == IF v = "pyml_utils" THEN "ml_utils" ELSE "pyml_utils"

\* The definitions of AllEngines and one without fields.
ForeignEngines == AllEngines \cup {<< >>}

\* A document an earlier Engine of the same package left: login 'l1' holds
\* user 'a' and password 'b', encoded.
DocWithLogin(v) ==
    ("login" :> (<<108,49>> :> LoginEntry(TRUE, <<97>>, <<98>>)))
    @@ EmptyDoc(v)

\* Documents whose login 'l2' was not written by this Engine: encoded with a
\* password that is not base64 ('abc'), encoded with a user that decodes to
\* bytes that are not UTF-8 ('/w=='), and plain, written without the flag.
DocPasswordMalformed(v) ==
    ("login" :> (<<108,50>> :> [user |-> <<89,81,61,61>>, password |-> <<97,98,99>>,
                                is_encode |-> TRUE]))
    @@ EmptyDoc(v)

DocUserMalformed(v) ==
    ("login" :> (<<108,50>> :> [user |-> <<47,119,61,61>>, password |-> <<89,81,61,61>>,
                                is_encode |-> TRUE]))
    @@ EmptyDoc(v)

DocPlainLogin(v) ==
    ("login" :> (<<108,50>> :> [user |-> <<97>>, password |-> <<98>>]))
    @@ EmptyDoc(v)

\* A document with engine 'x' defined on driver 'sqlite'.
DocWithEngine(v) ==
    ("engine" :> (S_x :> ((K_driver :> <<115,113,108,105,116,101>>)
                          @@ (K_database :> << >>))))
    @@ EmptyDoc(v)

\* 'host', 'driver': driver names that are also names of fields
N_host   == K_host
N_driver == K_driver

\* '{driver}://{host}'
HostUrl == <<123,100,114,105,118,101,114,125,58,47,47,123,104,111,115,116,125>>

\* Definitions whose driver is named like a field: driver='host', host='h';
\* driver='driver'.
CoincidingInputs ==
    { (K_driver :> N_host) @@ (K_host :> <<104>>),
      (K_driver :> N_driver) }

\* Keys, values and documents passed to the ConfHandler methods, after the
\* example of the class docstring: '1'; {'a': '1', 'b': '3'};
\* {'c': e-acute, 'b': '2'}.
ConfKeys == {"v1", "v2"}

ConfValues ==
    { Scalar(<<49>>),
      (<<97>> :> <<49>>) @@ (<<98>> :> <<51>>),
      (<<99>> :> <<233>>) @@ (<<98>> :> <<50>>) }

\* The ret arguments of get_key: None (the default), '1', {'b': '2'}.
ConfDefaults == {Scalar(None), Scalar(<<49>>), (<<98>> :> <<50>>)}

ConfDocs ==
    { << >>,
      ("v1" :> Scalar(<<49>>)) @@ ("v2" :> ((<<97>> :> <<49>>) @@ (<<98>> :> <<51>>))),
      ("v2" :> (<<98>> :> <<50>>)) }

\* A document an earlier ConfHandler left: {'v1': '1', 'v2': {'a': '1'}}.
DocOfHandler == ("v1" :> Scalar(<<49>>)) @@ ("v2" :> (<<97>> :> <<49>>))

\* Names and passwords with characters json.dump escapes: the login name
\* e-acute; the passwords '"', '\n' (a backslash and an n), U+1F600, and
\* e-acute followed by a line feed.
N_eacute == <<233>>

PersistPasswords == {<<34>>, <<92,110>>, <<128512>>, <<233,10>>}

\* Definitions of engine 'x' that name the login e-acute or none.
PersistEngines ==
    { (K_driver :> <<115,113,108,105,116,101>>) @@ (K_database :> << >>),
      (K_driver :> <<112,103>>) @@ (K_login :> N_eacute) @@ (K_host :> <<233>>) }

\* Row counts of the DataFrame and chunksize arguments passed to to_sql.
RowCounts == {0, 4000, 16000, 16001, 20000, 32000}

BatchSizes == {4000, 16000}

-----------------------------------------------------------------------------
(* Construction *)

\* Engine.__init__ over file f: the document is loaded, and an empty one is
\* replaced by the three empty collections and saved; no session exists.
EngineInit(v, f) ==
    /\ variant = v
    /\ IF DOMAIN LoadConf(f) = {}
       THEN conf = EmptyDoc(v) /\ file = Saved(EmptyDoc(v))
       ELSE conf = LoadConf(f) /\ file = f
    /\ sessions = << >>
    /\ created = 0
    /\ origin = << >>
    /\ last = [op |-> "init", arg |-> None, ret |-> None]
    /\ latest = << >>
    /\ pc = [t \in Threads |-> "idle"]
    /\ tsrc = [t \in Threads |-> <<120>>]
    /\ turl = [t \in Threads |-> None]
    /\ tret = [t \in Threads |-> NoHandle]

seqVars == <<pc, tsrc, turl, tret>>

-----------------------------------------------------------------------------
(* Operations of one Engine, called one after the other *)

set_login(login, user, password) ==
    /\ conf' = ConfUpdateKey(conf, "login",
                             login :> LoginEntry(is_encode, user, password))
    /\ file' = Saved(conf')
    /\ latest' = (login :> <<user, password>>) @@ latest
    /\ last' = [op |-> "set_login", arg |-> login, ret |-> None,
                cacheBefore |-> sessions]
    /\ UNCHANGED <<variant, is_encode, sessions, created, origin, seqVars>>

get_login_json(login) ==
    /\ last' = [op |-> "get_login_json", arg |-> login,
                ret |-> GetLoginJson(conf, login),
                known |-> login \in ListLogins(conf),
                confBefore |-> conf, fileBefore |-> file]
    /\ UNCHANGED <<variant, is_encode, conf, file, sessions, created, origin, latest, seqVars>>

get_login(login) ==
    /\ last' = [op |-> "get_login", arg |-> login,
                ret |-> GetLogin(conf, login),
                known |-> login \in ListLogins(conf),
                confBefore |-> conf, fileBefore |-> file]
    /\ UNCHANGED <<variant, is_encode, conf, file, sessions, created, origin, latest, seqVars>>

list_logins ==
    /\ last' = [op |-> "list_logins", arg |-> None, ret |-> ListLogins(conf)]
    /\ UNCHANGED <<variant, is_encode, conf, file, sessions, created, origin, latest, seqVars>>

\* Mutant of set_driver: the sessions are dropped with the old template.
set_driver_evicting(driver, url) ==
    /\ conf' = ConfUpdateKey(conf, TmplKey(variant), driver :> SetDriverUrl(url))
    /\ file' = Saved(conf')
    /\ sessions' = << >>
    /\ last' = [op |-> "set_driver", arg |-> driver, ret |-> None, url |-> url,
                cacheBefore |-> sessions]
    /\ UNCHANGED <<variant, is_encode, created, origin, latest, seqVars>>

\* set_driver (pyml_utils), set_url (ml_utils)
set_driver(driver, url) ==
    /\ conf' = ConfUpdateKey(conf, TmplKey(variant), driver :> SetDriverUrl(url))
    /\ file' = Saved(conf')
    /\ last' = [op |-> "set_driver", arg |-> driver, ret |-> None, url |-> url,
                cacheBefore |-> sessions]
    /\ UNCHANGED <<variant, is_encode, sessions, created, origin, latest, seqVars>>

\* get_driver (pyml_utils), get_url (ml_utils); follows records that the call
\* before was set_driver of the same driver with the url omitted.
get_driver(driver) ==
    /\ last' = [op |-> "get_driver", arg |-> driver,
                ret |-> IF DriverLookupRaises(conf, variant) THEN None
                        ELSE GetDriver(conf, variant, driver),
                raised |-> DriverLookupRaises(conf, variant),
                known |-> /\ ~DriverLookupRaises(conf, variant)
                          /\ driver \in DOMAIN ListDrivers(conf, variant),
                follows |-> last.op = "set_driver" /\ last.arg = driver
                            /\ last.url = None,
                confBefore |-> conf, fileBefore |-> file]
    /\ UNCHANGED <<variant, is_encode, conf, file, sessions, created, origin, latest, seqVars>>

\* list_drivers (pyml_utils), list_url (ml_utils)
list_drivers ==
    /\ last' = [op |-> "list_drivers", arg |-> None, ret |-> ListDrivers(conf, variant)]
    /\ UNCHANGED <<variant, is_encode, conf, file, sessions, created, origin, latest, seqVars>>

\* cached, kwargs and prior record the handle that was cached for the source,
\* the keyword arguments, and the field names of the definition replaced.
set_engine(source, kwargs) ==
    /\ conf' = ConfUpdateKey(conf, "engine", source :> kwargs)
    /\ file' = Saved(conf')
    /\ sessions' = Evict(variant, sessions, source)
    /\ last' = [op |-> "set_engine", arg |-> source, ret |-> None,
                cached |-> SessionOf(sessions, source),
                kwargs |-> kwargs,
                prior |-> IF "engine" \in DOMAIN conf /\ source \in ListEngines(conf)
                          THEN DOMAIN conf.engine[source] ELSE {}]
    /\ UNCHANGED <<variant, is_encode, created, origin, latest, seqVars>>

list_engines ==
    /\ last' = [op |-> "list_engines", arg |-> None, ret |-> ListEngines(conf)]
    /\ UNCHANGED <<variant, is_encode, conf, file, sessions, created, origin, latest, seqVars>>

get_engine_json(source) ==
    /\ last' = [op |-> "get_engine_json", arg |-> source,
                ret |-> IF EngineJsonRaises(conf, variant, source) THEN None
                        ELSE GetEngineJson(conf, variant, source),
                raised |-> EngineJsonRaises(conf, variant, source),
                confBefore |-> conf, fileBefore |-> file]
    /\ UNCHANGED <<variant, is_encode, conf, file, sessions, created, origin, latest, seqVars>>

\* Mutant of is_active: an entry whose probe fails is removed from the cache.
is_active_evicting(source) ==
    \E probe \in ProbeOutcomes(sessions, source) :
        /\ last' = [op |-> "is_active", arg |-> source,
                    ret |-> IsActive(sessions, source, probe), probe |-> probe,
                    cacheBefore |-> sessions]
        /\ sessions' = IF probe = "fail"
                       THEN [s \in DOMAIN sessions \ {source} |-> sessions[s]]
                       ELSE sessions
        /\ UNCHANGED <<variant, is_encode, conf, file, created, origin, latest, seqVars>>

is_active(source) ==
    \E probe \in ProbeOutcomes(sessions, source) :
        /\ last' = [op |-> "is_active", arg |-> source,
                    ret |-> IsActive(sessions, source, probe), probe |-> probe,
                    cacheBefore |-> sessions]
        /\ UNCHANGED <<variant, is_encode, conf, file, sessions, created, origin, latest, seqVars>>

\* What get_engine records: the probe's outcome, the driver it resolved, the
\* connection string it built (None when it built none), whether format or
\* create_engine raised, whether a handle was constructed, the cache before
\* the call, and what the call before returned when that was a get_engine of
\* the same source that did not raise (-1 otherwise), and the handle that was
\* cached for the source when the call before was a set_engine of it.
EngineCall(source, ret, probe, url, raised, built) ==
    [op |-> "get_engine", arg |-> source, ret |-> ret, probe |-> probe,
     driver |-> EngineDriver(conf, variant, source), url |-> url,
     raised |-> raised, built |-> built, cacheBefore |-> sessions,
     before |-> IF last.op = "get_engine" /\ last.arg = source
                   /\ last.raised = "no"
                THEN last.ret ELSE -1,
     stale |-> IF last.op = "set_engine" /\ last.arg = source
               THEN last.cached ELSE NoHandle]

\* get_engine, the session is active: the cached handle is returned.
GetEngineActive(source, probe) ==
    /\ IsActive(sessions, source, probe)
    /\ last' = EngineCall(source, SessionOf(sessions, source), probe, None,
                          "no", FALSE)
    /\ UNCHANGED <<sessions, created, origin>>

\* get_engine, not active and no driver: logged, sessions.get(source) returned.
GetEngineNoDriver(source, probe) ==
    /\ ~IsActive(sessions, source, probe)
    /\ ~Truthy(EngineDriver(conf, variant, source))
    /\ last' = EngineCall(source, SessionOf(sessions, source), probe, None,
                          "no", FALSE)
    /\ UNCHANGED <<sessions, created, origin>>

\* get_engine, not active, a driver, and url.format raises.
GetEngineFormatRaises(source, probe) ==
    /\ ~IsActive(sessions, source, probe)
    /\ Truthy(EngineDriver(conf, variant, source))
    /\ ~BuildUrl(conf, variant, source).ok
    /\ last' = EngineCall(source, NoHandle, probe, None, "format", FALSE)
    /\ UNCHANGED <<sessions, created, origin>>

\* get_engine, not active, the connection string is built and create_engine
\* raises (a URL it cannot parse, a dialect that is not installed).
GetEngineCreateRaises(source, probe) ==
    /\ ~IsActive(sessions, source, probe)
    /\ Truthy(EngineDriver(conf, variant, source))
    /\ BuildUrl(conf, variant, source).ok
    /\ last' = EngineCall(source, NoHandle, probe,
                          BuildUrl(conf, variant, source).val, "create", FALSE)
    /\ UNCHANGED <<sessions, created, origin>>

\* get_engine, not active, the connection string is built and create_engine
\* returns a new handle, which is stored and returned.
GetEngineCreate(source, probe) ==
    /\ ~IsActive(sessions, source, probe)
    /\ Truthy(EngineDriver(conf, variant, source))
    /\ BuildUrl(conf, variant, source).ok
    /\ created < MaxHandles
    /\ created' = created + 1
    /\ sessions' = (source :> created') @@ sessions
    /\ origin' = (created' :> conf.engine[source]) @@ origin
    /\ last' = EngineCall(source, created', probe,
                          BuildUrl(conf, variant, source).val, "no", TRUE)

\* get_engine, not active, and the lookup of the template raises.
GetEngineLookupRaises(source, probe) ==
    /\ ~IsActive(sessions, source, probe)
    /\ EngineLookupRaises(conf, variant, source)
    /\ last' = EngineCall(source, NoHandle, probe, None, "config", FALSE)
    /\ UNCHANGED <<sessions, created, origin>>

get_engine(source) ==
    /\ \E probe \in ProbeOutcomes(sessions, source) :
          \/ GetEngineActive(source, probe)
          \/ GetEngineLookupRaises(source, probe)
          \/ /\ ~EngineLookupRaises(conf, variant, source)
             /\ \/ GetEngineNoDriver(source, probe)
                \/ GetEngineFormatRaises(source, probe)
                \/ GetEngineCreateRaises(source, probe)
                \/ GetEngineCreate(source, probe)
    /\ UNCHANGED <<variant, is_encode, conf, file, latest, seqVars>>

\* get_engine as from_sql and to_sql call it: what it returns, whether it
\* raised, and the cache and the handle count it leaves.
GetEngineOutcomes(source, probe) ==
    LET same(ret, raised) ==
            [ret |-> ret, raised |-> raised, sessions |-> sessions,
             created |-> created]
    IN  IF IsActive(sessions, source, probe)
        THEN {same(SessionOf(sessions, source), "no")}
        ELSE IF EngineLookupRaises(conf, variant, source)
        THEN {same(NoHandle, "config")}
        ELSE IF ~Truthy(EngineDriver(conf, variant, source))
        THEN {same(SessionOf(sessions, source), "no")}
        ELSE IF ~BuildUrl(conf, variant, source).ok
        THEN {same(NoHandle, "format")}
        ELSE {same(NoHandle, "create")}
             \cup (IF created < MaxHandles
                   THEN {[ret |-> created + 1, raised |-> "no",
                          sessions |-> (source :> (created + 1)) @@ sessions,
                          created |-> created + 1]}
                   ELSE {})

\* Why the pandas call of from_sql / to_sql fails, "none" when it does not:
\* get_engine raised, it returned None (pandas raises on a null connection),
\* or the database operation d itself failed.
SqlFailure(g, d) ==
    IF g.raised # "no" THEN g.raised
    ELSE IF g.ret = NoHandle THEN "no_engine"
    ELSE d

\* Mutant of HasTry: only pyml_utils wraps its calls in try/except.
HasTryPymlOnly(v, op) == v = "pyml_utils"

\* Whether the body of the method runs inside try/except: to_sql in both
\* packages, from_sql in pyml_utils only.
HasTry(v, op) == op = "to_sql" \/ v = "pyml_utils"

\* from_sql: the frame read_sql_query returns; a failure is logged and None
\* returned inside try/except, and propagates without one.
from_sql(source) ==
    \E probe \in ProbeOutcomes(sessions, source) :
      \E g \in GetEngineOutcomes(source, probe), d \in {"none", "query"} :
        LET failure == SqlFailure(g, d)
        IN  /\ sessions' = g.sessions
            /\ created' = g.created
            /\ origin' = IF g.created # created
                         THEN (g.created :> conf.engine[source]) @@ origin
                         ELSE origin
            /\ last' = [op |-> "from_sql", arg |-> source,
                        ret |-> IF failure = "none" THEN "df" ELSE "None",
                        failure |-> failure,
                        raised |-> failure # "none" /\ ~HasTry(variant, "from_sql"),
                        cacheBefore |-> sessions,
                        confBefore |-> conf, fileBefore |-> file]
            /\ UNCHANGED <<variant, is_encode, conf, file, latest, seqVars>>

\* chunksize as to_sql uses it: ml_utils overwrites the argument.
DefaultChunksize == 16000

EffectiveChunksize(v, chunksize) ==
    IF v = "ml_utils" THEN DefaultChunksize ELSE chunksize

\* The row counts of the inserts DataFrame.to_sql issues for n rows: batches
\* of chunksize rows, the last one with the rest; one insert of all rows
\* (none for an empty frame) when no chunksize is passed.
InsertSizes(n, chunked, chunksize) ==
    IF n = 0 THEN << >>
    ELSE IF ~chunked THEN <<n>>
    ELSE [i \in 1..((n + chunksize - 1) \div chunksize) |->
             IF i * chunksize <= n THEN chunksize
             ELSE n - (i - 1) * chunksize]

\* to_sql: chunksize is passed on when the frame has more rows than it; the
\* write fails after j inserts or not at all; every failure is caught and
\* logged, and nothing is returned.
to_sql(source, n, chunksize) ==
    \E probe \in ProbeOutcomes(sessions, source) :
      \E g \in GetEngineOutcomes(source, probe) :
        LET size    == EffectiveChunksize(variant, chunksize)
            chunked == n > size
            inserts == InsertSizes(n, chunked, size)
        IN  \E j \in 0..Len(inserts) :
              LET failure == SqlFailure(g, IF j < Len(inserts) THEN "write"
                                            ELSE "none")
              IN  /\ sessions' = g.sessions
                  /\ created' = g.created
                  /\ origin' = IF g.created # created
                               THEN (g.created :> conf.engine[source]) @@ origin
                               ELSE origin
                  /\ last' = [op |-> "to_sql", arg |-> source, ret |-> "None",
                              n |-> n, chunksize |-> chunksize,
                              chunked |-> chunked,
                              inserts |-> IF failure \in {"none", "write"}
                                          THEN SubSeq(inserts, 1, j) ELSE << >>,
                              failure |-> failure,
                              raised |-> failure # "none"
                                         /\ ~HasTry(variant, "to_sql"),
                              cacheBefore |-> sessions,
                              confBefore |-> conf, fileBefore |-> file]
                  /\ UNCHANGED <<variant, is_encode, conf, file, latest, seqVars>>

\* A new Engine is constructed over the file this one wrote, with flag e: the
\* document is loaded from the file and no session exists.  The record holds
\* what the old Engine answered just before.
new_engine(e) ==
    /\ IF DOMAIN LoadConf(file) = {}
       THEN conf' = EmptyDoc(variant) /\ file' = Saved(EmptyDoc(variant))
       ELSE conf' = LoadConf(file) /\ file' = file
    /\ sessions' = << >>
    /\ is_encode' = e
    /\ last' = [op |-> "new_engine", arg |-> None, ret |-> None,
                logins |-> ListLogins(conf),
                loginJson |-> [n \in LoginNames \cup {N_eacute} |->
                                  GetLoginJson(conf, n)],
                drivers |-> ListDrivers(conf, variant),
                engines |-> ListEngines(conf),
                engineJson |-> [s \in Sources |->
                                   GetEngineJson(conf, variant, s)],
                cached |-> DOMAIN sessions]
    /\ UNCHANGED <<variant, created, origin, latest, seqVars>>

-----------------------------------------------------------------------------
(* Operations of the ConfHandler *)

\* ConfHandler.__init__ over file f: the document is loaded, nothing is saved.
ConfHandlerInit(v, f) ==
    /\ variant = v
    /\ conf = ReadConf(v, f)
    /\ file = f
    /\ sessions = << >>
    /\ created = 0
    /\ origin = << >>
    /\ last = [op |-> "init", arg |-> None, ret |-> None]
    /\ latest = << >>
    /\ pc = [t \in Threads |-> "idle"]
    /\ tsrc = [t \in Threads |-> <<120>>]
    /\ turl = [t \in Threads |-> None]
    /\ tret = [t \in Threads |-> NoHandle]

\* What a ConfHandler method records: its name, its key (or "" without one),
\* whether it raised, and the document and the file before it.
ConfCall(op, key, raised) ==
    [op |-> op, arg |-> None, ret |-> None, key |-> key, raised |-> raised,
     confBefore |-> conf, fileBefore |-> file]

engineVars == <<variant, is_encode, sessions, created, origin, latest, seqVars>>

\* set_conf: pyml_utils replaces the document, ml_utils updates it.
set_conf(c) ==
    /\ conf' = IF variant = "pyml_utils" \/ DOMAIN conf = {} THEN c
               ELSE Update(conf, c)
    /\ file' = Saved(conf')
    /\ last' = ConfCall("set_conf", "", FALSE)
    /\ UNCHANGED engineVars

\* update_conf (pyml_utils): None has no update, AttributeError.
update_conf(c) ==
    /\ variant = "pyml_utils"
    /\ IF IsConfNone(conf)
       THEN /\ UNCHANGED <<conf, file>>
            /\ last' = ConfCall("update_conf", "", TRUE)
       ELSE /\ conf' = IF DOMAIN conf = {} THEN c ELSE Update(conf, c)
            /\ file' = Saved(conf')
            /\ last' = ConfCall("update_conf", "", FALSE)
    /\ UNCHANGED engineVars

\* set_key: pyml_utils assigns the key (TypeError on None); ml_utils merges
\* as update_key does.
set_key(key, value) ==
    /\ IF variant = "pyml_utils" /\ IsConfNone(conf)
       THEN /\ UNCHANGED <<conf, file>>
            /\ last' = ConfCall("set_key", key, TRUE)
       ELSE /\ conf' = IF variant = "pyml_utils" THEN (key :> value) @@ conf
                       ELSE ConfUpdateKey(conf, key, value)
            /\ file' = Saved(conf')
            /\ last' = ("value" :> value) @@ ConfCall("set_key", key, FALSE)
    /\ UNCHANGED engineVars

\* Mutant of del_key: the key is deleted and the document is not saved.
del_key_unsaved(key) ==
    /\ variant = "pyml_utils"
    /\ ~IsConfNone(conf)
    /\ conf' = [k \in DOMAIN conf \ {key} |-> conf[k]]
    /\ file' = file
    /\ last' = ConfCall("del_key", key, FALSE)
    /\ UNCHANGED engineVars

\* del_key (pyml_utils): `key in None` is a TypeError; an existing key is
\* deleted and the document saved; a missing key changes and saves nothing.
del_key(key) ==
    /\ variant = "pyml_utils"
    /\ IF IsConfNone(conf)
       THEN /\ UNCHANGED <<conf, file>>
            /\ last' = ConfCall("del_key", key, TRUE)
       ELSE IF key \in DOMAIN conf
       THEN /\ conf' = [k \in DOMAIN conf \ {key} |-> conf[k]]
            /\ file' = Saved(conf')
            /\ last' = ConfCall("del_key", key, FALSE)
       ELSE /\ UNCHANGED <<conf, file>>
            /\ last' = ConfCall("del_key", key, FALSE)
    /\ UNCHANGED engineVars

\* update_key (pyml_utils): None has no get, AttributeError.
update_key(key, value) ==
    /\ variant = "pyml_utils"
    /\ IF IsConfNone(conf)
       THEN /\ UNCHANGED <<conf, file>>
            /\ last' = ConfCall("update_key", key, TRUE)
       ELSE /\ conf' = ConfUpdateKey(conf, key, value)
            /\ file' = Saved(conf')
            /\ last' = ("value" :> value) @@ ConfCall("update_key", key, FALSE)
    /\ UNCHANGED engineVars

\* get_key: dict.get(key, ret) on the document; None has no get,
\* AttributeError (pyml_utils over a file that does not exist).
get_key(key, ret) ==
    /\ last' = IF IsConfNone(conf)
               THEN ("default" :> ret) @@ ConfCall("get_key", key, TRUE)
               ELSE ("default" :> ret)
                    @@ [ConfCall("get_key", key, FALSE) EXCEPT
                          !.ret = IF key \in DOMAIN conf THEN conf[key] ELSE ret]
    /\ UNCHANGED <<conf, file>>
    /\ UNCHANGED engineVars

\* reset_conf (pyml_utils)
reset_conf ==
    /\ variant = "pyml_utils"
    /\ conf' = << >>
    /\ file' = Saved(conf')
    /\ last' = ConfCall("reset_conf", "", FALSE)
    /\ UNCHANGED engineVars

-----------------------------------------------------------------------------
(* get_engine called from several threads: the steps of one call *)

\* A thread enters get_engine(source).
t_call(t, source) ==
    /\ pc[t] = "idle"
    /\ pc' = [pc EXCEPT ![t] = "probe"]
    /\ tsrc' = [tsrc EXCEPT ![t] = source]
    /\ UNCHANGED <<variant, is_encode, conf, file, last, latest>>
    /\ UNCHANGED <<sessions, created, origin, turl, tret>>

\* is_active: the entry is looked up and probed.
t_probe(t) ==
    /\ pc[t] = "probe"
    /\ \E probe \in ProbeOutcomes(sessions, tsrc[t]) :
          pc' = [pc EXCEPT ![t] = IF IsActive(sessions, tsrc[t], probe)
                                   THEN "return" ELSE "build"]
    /\ UNCHANGED <<variant, is_encode, conf, file, last, latest>>
    /\ UNCHANGED <<sessions, created, origin, tsrc, turl, tret>>

\* get_engine_json, get_driver and url.format: without a driver the call goes
\* on to its return; with one the connection string is built and create_engine
\* is entered, unless the lookup of the template or format raises.
t_build(t) ==
    /\ pc[t] = "build"
    /\ IF ~Truthy(EngineDriver(conf, variant, tsrc[t]))
       THEN pc' = [pc EXCEPT ![t] = "return"] /\ turl' = turl
       ELSE IF \/ EngineLookupRaises(conf, variant, tsrc[t])
               \/ ~BuildUrl(conf, variant, tsrc[t]).ok
       THEN pc' = [pc EXCEPT ![t] = "raised"] /\ turl' = turl
       ELSE /\ pc' = [pc EXCEPT ![t] = "create"]
            /\ turl' = [turl EXCEPT ![t] = BuildUrl(conf, variant, tsrc[t]).val]
    /\ UNCHANGED <<variant, is_encode, conf, file, last, latest>>
    /\ UNCHANGED <<sessions, created, origin, tsrc, tret>>

\* create_engine returns a new handle, which is stored under the source.
t_create(t) ==
    /\ pc[t] = "create"
    /\ created < MaxHandles
    /\ created' = created + 1
    /\ sessions' = (tsrc[t] :> created') @@ sessions
    /\ origin' = (created' :> conf.engine[tsrc[t]]) @@ origin
    /\ pc' = [pc EXCEPT ![t] = "return"]
    /\ UNCHANGED <<variant, is_encode, conf, file, last, latest>>
    /\ UNCHANGED <<tsrc, turl, tret>>

\* create_engine raises, and get_engine with it.
t_create_raises(t) ==
    /\ pc[t] = "create"
    /\ pc' = [pc EXCEPT ![t] = "raised"]
    /\ UNCHANGED <<variant, is_encode, conf, file, last, latest>>
    /\ UNCHANGED <<sessions, created, origin, tsrc, turl, tret>>

\* return self.sessions.get(source)
t_return(t) ==
    /\ pc[t] = "return"
    /\ tret' = [tret EXCEPT ![t] = SessionOf(sessions, tsrc[t])]
    /\ pc' = [pc EXCEPT ![t] = "done"]
    /\ UNCHANGED <<variant, is_encode, conf, file, last, latest>>
    /\ UNCHANGED <<sessions, created, origin, tsrc, turl>>

-----------------------------------------------------------------------------
(* Mutating calls of one Engine from several threads: update_key's change of
   the in-memory document and its save_conf are separate steps, and nothing
   in the Engine or the ConfHandler holds a lock between them *)

\* set_login up to the in-memory update of update_key.
t_set_login(t, login, user, password) ==
    /\ pc[t] = "idle"
    /\ conf' = ConfUpdateKey(conf, "login",
                             login :> LoginEntry(is_encode, user, password))
    /\ latest' = (login :> <<user, password>>) @@ latest
    /\ pc' = [pc EXCEPT ![t] = "save"]
    /\ UNCHANGED <<variant, is_encode, file, sessions, created, origin, last,
                   tsrc, turl, tret>>

\* set_driver / set_url up to the in-memory update.
t_set_driver(t, driver, url) ==
    /\ pc[t] = "idle"
    /\ conf' = ConfUpdateKey(conf, TmplKey(variant), driver :> SetDriverUrl(url))
    /\ pc' = [pc EXCEPT ![t] = "save"]
    /\ UNCHANGED <<variant, is_encode, file, sessions, created, origin, last, latest,
                   tsrc, turl, tret>>

\* set_engine up to the in-memory update.
t_set_engine(t, source, kwargs) ==
    /\ pc[t] = "idle"
    /\ conf' = ConfUpdateKey(conf, "engine", source :> kwargs)
    /\ pc' = [pc EXCEPT ![t] = "save_evict"]
    /\ tsrc' = [tsrc EXCEPT ![t] = source]
    /\ UNCHANGED <<variant, is_encode, file, sessions, created, origin, last, latest,
                   turl, tret>>

\* save_conf: the document as it is now is dumped; set_engine then evicts,
\* and the call returns.
t_save(t) ==
    /\ pc[t] \in {"save", "save_evict"}
    /\ file' = Saved(conf)
    /\ sessions' = IF pc[t] = "save_evict"
                   THEN Evict(variant, sessions, tsrc[t]) ELSE sessions
    /\ pc' = [pc EXCEPT ![t] = "idle"]
    /\ UNCHANGED <<variant, is_encode, conf, created, origin, last, latest,
                   tsrc, turl, tret>>

-----------------------------------------------------------------------------
(* Specifications *)

\* The driver whose template holds a numbered placeholder: 'pg'.
NumberedDrivers == {<<112,103>>}

\* One Engine over a new file: engines are defined and redefined, sessions
\* are opened, probed and reused.
Init ==
    \E v \in Variants : EngineInit(v, NoFile) /\ is_encode = TRUE

Next ==
    \/ \E d \in NumberedDrivers : set_driver(d, NumberedUrl)
    \/ \E s \in Sources, k \in EngineInputs : set_engine(s, k)
    \/ \E s \in Sources : is_active(s)
    \/ \E s \in Sources : get_engine(s)

Spec == Init /\ [][Next]_vars

\* One Engine over a new file or over a file with a stored login: templates
\* are stored and read, and the connection string of engine 'x' is built.
InitDriver ==
    \E v \in Variants :
        \E f \in {NoFile, Saved(DocWithLogin(v))} :
            EngineInit(v, f) /\ is_encode = TRUE

NextDriver ==
    \/ \E d \in DriverNames, u \in UrlInputs : set_driver(d, u)
    \/ \E d \in DriverNames : get_driver(d)
    \/ list_drivers
    \/ \E k \in EngineInputs : set_engine(S_x, k)
    \/ get_engine(S_x)

SpecDriver == InitDriver /\ [][NextDriver]_vars

\* One Engine, with either value of is_encode, over a new file or over a file
\* that holds a login this Engine did not write; logins are operated on.
InitLogin ==
    \E v \in Variants, e \in BOOLEAN :
        \E f \in {NoFile, Saved(DocPasswordMalformed(v)),
                  Saved(DocUserMalformed(v)), Saved(DocPlainLogin(v))} :
            EngineInit(v, f) /\ is_encode = e

NextLogin ==
    \/ \E n \in LoginNames, u \in UserInputs, p \in PasswordInputs : set_login(n, u, p)
    \/ \E n \in LoginNames : get_login_json(n)
    \/ \E n \in LoginNames : get_login(n)
    \/ list_logins

SpecLogin == InitLogin /\ [][NextLogin]_vars

\* Threads calling get_engine on one Engine whose document defines engine 'x'
\* and whose cache is empty.
InitConc ==
    \E v \in Variants : EngineInit(v, Saved(DocWithEngine(v))) /\ is_encode = TRUE

NextConc ==
    \/ \E t \in Threads, s \in Sources : t_call(t, s)
    \/ \E t \in Threads : t_probe(t)
    \/ \E t \in Threads : t_build(t)
    \/ \E t \in Threads : t_create(t)
    \/ \E t \in Threads : t_create_raises(t)
    \/ \E t \in Threads : t_return(t)

SpecConc == InitConc /\ [][NextConc]_vars

\* One Engine over a new file or over a file with a stored login: engine 'x'
\* is defined, also on drivers named like fields, described and connected.
InitDescribe ==
    \E v \in Variants :
        \E f \in {NoFile, Saved(DocWithLogin(v))} :
            EngineInit(v, f) /\ is_encode = TRUE

NextDescribe ==
    \/ \E u \in {None, HostUrl} : set_driver(N_host, u)
    \/ \E k \in EngineInputs \cup CoincidingInputs : set_engine(S_x, k)
    \/ \E s \in Sources : get_engine_json(s)
    \/ get_engine(S_x)

SpecDescribe == InitDescribe /\ [][NextDescribe]_vars

\* A ConfHandler over a missing file or over a file an earlier handler left,
\* or the handler of an Engine: the mutating methods of the handler, and
\* those of the Engine once its handler holds a document.
InitConf ==
    \E v \in Variants :
        \/ \E f \in {NoFile, Saved(DocOfHandler)} :
               ConfHandlerInit(v, f) /\ is_encode = FALSE
        \/ EngineInit(v, NoFile) /\ is_encode = FALSE

NextConf ==
    \/ \E c \in ConfDocs : set_conf(c)
    \/ \E c \in ConfDocs : update_conf(c)
    \/ \E k \in ConfKeys, x \in ConfValues : set_key(k, x)
    \/ \E k \in ConfKeys : del_key(k)
    \/ \E k \in ConfKeys, x \in ConfValues : update_key(k, x)
    \/ reset_conf
    \/ \E k \in ConfKeys, r \in ConfDefaults : get_key(k, r)
    \/ ~IsConfNone(conf) /\ set_login(<<108,49>>, <<97>>, <<233>>)
    \/ ~IsConfNone(conf) /\ set_driver(<<112,103>>, None)
    \/ ~IsConfNone(conf) /\ set_engine(S_x, << >>)

SpecConf == InitConf /\ [][NextConf]_vars

\* Threads calling the mutating methods of one Engine over a new file.
InitMut ==
    \E v \in Variants : EngineInit(v, NoFile) /\ is_encode = TRUE

NextMut ==
    \/ \E t \in Threads, p \in PasswordInputs :
           t_set_login(t, <<108,49>>, <<97>>, p)
    \/ \E t \in Threads, u \in {None, SqliteUrl} :
           t_set_driver(t, <<112,103>>, u)
    \/ \E t \in Threads, k \in EngineInputs : t_set_engine(t, S_x, k)
    \/ \E t \in Threads : t_save(t)

SpecMut == InitMut /\ [][NextMut]_vars

\* One Engine, with either value of is_encode, over a new file: logins,
\* templates and definitions with escaped characters are stored, a session is
\* opened, and a new Engine is constructed over the file.
InitPersist ==
    \E v \in Variants, e \in BOOLEAN : EngineInit(v, NoFile) /\ is_encode = e

NextPersist ==
    \/ \E p \in PersistPasswords : set_login(N_eacute, <<97>>, p)
    \/ \E u \in {None, SqliteUrl} : set_driver(<<112,103>>, u)
    \/ \E k \in PersistEngines : set_engine(S_x, k)
    \/ get_engine(S_x)
    \/ \E e \in BOOLEAN : new_engine(e)

SpecPersist == InitPersist /\ [][NextPersist]_vars

\* One Engine over a new file: engine 'x' is defined and redefined, 'y' never
\* is, and frames are read from and written to both.
InitSql ==
    \E v \in Variants : EngineInit(v, NoFile) /\ is_encode = TRUE

NextSql ==
    \/ \E k \in EngineInputs : set_engine(S_x, k)
    \/ \E s \in Sources : from_sql(s)
    \/ \E s \in Sources, n \in RowCounts, b \in BatchSizes : to_sql(s, n, b)

SpecSql == InitSql /\ [][NextSql]_vars

\* Every operation of one Engine over the file an earlier Engine left, with
\* a second login, a second template and definitions of both sources set.
InitAll ==
    \E v \in Variants : EngineInit(v, Saved(DocAll(v))) /\ is_encode = TRUE

NextAll ==
    \/ set_login(<<108,49>>, <<97>>, <<98>>)
    \/ get_login_json(<<108,49>>)
    \/ get_login(<<108,49>>)
    \/ list_logins
    \/ set_driver(<<112,103>>, SqliteUrl)
    \/ get_driver(<<112,103>>)
    \/ list_drivers
    \/ \E k \in AllEngines : set_engine(S_x, k)
    \/ list_engines
    \/ get_engine_json(S_x)
    \/ is_active(S_x)
    \/ \E s \in Sources : get_engine(s)
    \/ from_sql(S_x)
    \/ to_sql(S_y, 4000, 16000)

SpecAll == InitAll /\ [][NextAll]_vars

\* An Engine over the file an Engine of the other package left, which holds
\* the templates under the other package's key.
InitForeign ==
    \E v \in Variants :
        EngineInit(v, Saved(DocAll(OtherVariant(v)))) /\ is_encode = TRUE

NextForeign ==
    \/ set_login(<<108,49>>, <<97>>, <<98>>)
    \/ \E n \in LoginNames : get_login_json(n)
    \/ list_logins
    \/ set_driver(<<112,103>>, None)
    \/ \E d \in DriverNames : get_driver(d)
    \/ list_drivers
    \/ \E k \in ForeignEngines : set_engine(S_x, k)
    \/ list_engines
    \/ \E s \in Sources : get_engine_json(s)
    \/ \E s \in Sources : get_engine(s)

SpecForeign == InitForeign /\ [][NextForeign]_vars

-----------------------------------------------------------------------------
(* Properties *)

\* C1: after set_engine(x, ...) on a source x that had a cached session h,
\* the cache holds no entry for x, and the get_engine(x) that follows does not
\* return h.
C1_SetEngineEvicts ==
    /\ (last.op = "set_engine" /\ last.cached # NoHandle)
           => last.arg \notin DOMAIN sessions
    /\ (last.op = "get_engine" /\ last.stale # NoHandle /\ last.raised = "no")
           => last.ret # last.stale

\* C2: a get_engine that directly follows a get_engine of the same source and
\* whose liveness probe succeeds returns the handle the first call returned,
\* constructs no handle and leaves the session cache as it was.
C2_RepeatedGetEngine ==
    (last.op = "get_engine" /\ last.before # -1 /\ last.probe = "ok")
        => /\ last.ret = last.before
           /\ ~last.built
           /\ last.raised = "no"
           /\ sessions = last.cacheBefore

\* A second get_engine in a row found its session healthy.
C2_Witness ==
    /\ last.op = "get_engine"
    /\ last.before # -1
    /\ last.before # NoHandle
    /\ last.probe = "ok"

\* C3: a get_engine that finds no live entry (none, or one whose probe fails)
\* and resolves no driver returns None.
C3_NoSessionNoDriverGivesNone ==
    (last.op = "get_engine" /\ last.probe \in {"none", "fail"}
        /\ ~Truthy(last.driver))
        => last.ret = NoHandle /\ last.raised = "no"

\* C4: at most one thread at a time is inside create_engine for a source.
C4_OneConstructionInFlight ==
    \A s \in Sources :
        Cardinality({t \in Threads : pc[t] = "create" /\ tsrc[t] = s}) <= 1

\* C5: when every thread has called get_engine on the same source, whose
\* session was not cached, at most one of them attempted a construction and
\* all of them got the same result.
C5_CallersAgree ==
    (\A t \in Threads : pc[t] \in {"done", "raised"} /\ tsrc[t] = S_x)
        => /\ Cardinality({t \in Threads : turl[t] # None}) <= 1
           /\ \A t1, t2 \in Threads :
                  (pc[t1] = "done" /\ pc[t2] = "done") => tret[t1] = tret[t2]

\* C6: get_login_json(name) returns the user and password of the latest
\* set_login(name, u, p), and get_login(name) the pair (u, p), whatever the
\* encode flag and whatever else the store holds.
C6_LoginRoundTrip ==
    /\ (last.op = "get_login_json" /\ last.arg \in DOMAIN latest)
           => last.ret = (K_user :> latest[last.arg][1])
                         @@ (K_password :> latest[last.arg][2])
    /\ (last.op = "get_login" /\ last.arg \in DOMAIN latest)
           => last.ret = latest[last.arg]

\* A login set twice is read back while the store holds an entry of another
\* name whose flag differs from this Engine's.
C6_Witness ==
    /\ last.op = "get_login_json"
    /\ last.arg \in DOMAIN latest
    /\ latest[last.arg][2] # << >>
    /\ \E n \in DOMAIN conf.login :
           n \notin DOMAIN latest /\ StoredIsEncode(conf.login[n]) # is_encode

\* C7: get_login_json of an entry flagged encoded whose user or password does
\* not decode returns the empty dict.
C7_DecodeFailureGivesEmpty ==
    (last.op = "get_login_json" /\ last.known
        /\ DecodeFails(conf.login[last.arg]))
        => last.ret = << >>

\* C8: for a name without an entry get_login_json returns the empty dict and
\* get_login (None, None), and neither changes the document or the file.
C8_UnknownLogin ==
    /\ (last.op = "get_login_json" /\ ~last.known)
           => last.ret = << >> /\ last.confBefore = conf /\ last.fileBefore = file
    /\ (last.op = "get_login" /\ ~last.known)
           => /\ last.ret = <<None, None>>
              /\ last.confBefore = conf /\ last.fileBefore = file

\* An unknown name was looked up in a store that holds other logins.
C8_Witness ==
    /\ last.op = "get_login"
    /\ ~last.known
    /\ DOMAIN conf.login # {}

\* C9: get_driver of a driver without a stored template returns the default
\* template and stores nothing; after set_driver(d) with the url omitted the
\* driver is listed and get_driver(d) returns the default template.
C9_DefaultTemplate ==
    /\ (last.op = "get_driver" /\ ~last.known)
           => /\ last.ret = DefaultUrl
              /\ last.confBefore = conf /\ last.fileBefore = file
              /\ last.arg \notin DOMAIN ListDrivers(conf, variant)
    /\ (last.op = "get_driver" /\ last.follows)
           => last.ret = DefaultUrl /\ last.known
    /\ (last.op = "set_driver" /\ last.url = None)
           => /\ last.arg \in DOMAIN ListDrivers(conf, variant)
              /\ ListDrivers(conf, variant)[last.arg] = DefaultUrl

\* get_driver(d) right after set_driver(d) with the url omitted, while the
\* other driver holds a template of its own.
C9_Witness ==
    /\ last.op = "get_driver"
    /\ last.follows
    /\ \E d \in DOMAIN ListDrivers(conf, variant) :
           ListDrivers(conf, variant)[d] # DefaultUrl

\* The template with every {identifier}, identifier being one or more of
\* A-Z a-z 0-9 _, replaced by the field of that name, or by '' without one.
RECURSIVE Substitute(_, _, _)
Substitute(s, i, fields) ==
    IF i > Len(s) THEN << >>
    ELSE LET n == WordRun(s, i + 1)
         IN  IF s[i] = 123 /\ n >= 1 /\ i + n + 1 <= Len(s) /\ s[i + n + 1] = 125
             THEN (IF SubSeq(s, i + 1, i + n) \in DOMAIN fields
                   THEN fields[SubSeq(s, i + 1, i + n)] ELSE << >>)
                  \o Substitute(s, i + n + 2, fields)
             ELSE <<s[i]>> \o Substitute(s, i + 1, fields)

\* C10: when get_engine resolves a driver, building the connection string
\* does not fail, and the string is the driver's template with each
\* placeholder replaced by the merged field of its name, or by ''.
C10_PlaceholdersSubstituted ==
    (last.op = "get_engine" /\ last.probe # "ok" /\ Truthy(last.driver))
        => /\ last.raised # "format"
           /\ last.url = Substitute(GetDriver(conf, variant, last.driver), 1,
                                    GetEngineJson(conf, variant, last.arg))

\* The merge the specification gives for describeEngine, up to the login: the
\* stored fields, overridden by the user and password of the login named.
FieldsWithLogin(doc, source) ==
    LET def   == doc.engine[source]
        login == Get(def, K_login)
    IN  IF Truthy(login) /\ login \in ListLogins(doc)
        THEN Update(def, GetLoginJson(doc, login))
        ELSE def

\* C11: get_engine_json(source) returns the stored fields, overridden by the
\* user and password of the login named when it exists, overridden by the
\* entry driver name -> template when a driver is named; it returns the empty
\* dict for a source without definition, and changes neither the document nor
\* the file.
C11_DescribeEngine ==
    last.op = "get_engine_json"
        => /\ last.ret =
                  IF last.arg \notin ListEngines(conf) THEN << >>
                  ELSE LET m == FieldsWithLogin(conf, last.arg)
                           d == Get(conf.engine[last.arg], K_driver)
                       IN  IF Truthy(d)
                           THEN Update(m, d :> GetDriver(conf, variant, d))
                           ELSE m
           /\ last.confBefore = conf
           /\ last.fileBefore = file

\* C12: when get_engine builds a connection, the driver it resolves and the
\* connection string it builds (or the failure of building it) are those
\* obtained from the merged fields without the entry driver name -> template.
C12_DriverEntryHarmless ==
    (last.op = "get_engine" /\ last.probe # "ok"
        /\ last.arg \in ListEngines(conf))
        => LET m == FieldsWithLogin(conf, last.arg)
               d == Get(m, K_driver)
               u == GetDriver(conf, variant, d)
               f == Format(u, DictUrl(u, m))
           IN  /\ last.driver = d
               /\ Truthy(d) => IF f.ok THEN last.url = f.val
                                ELSE last.raised = "format"

\* C13: after set_engine(source, params) the stored definition of source is
\* exactly params (the empty definition when no params are given), nothing of
\* an earlier definition survives, and source is listed by list_engines.
C13_SetEngineStoresParams ==
    last.op = "set_engine"
        => /\ last.arg \in ListEngines(conf)
           /\ conf.engine[last.arg] = last.kwargs
           /\ DOMAIN conf.engine[last.arg] = DOMAIN last.kwargs

\* A definition with fields was replaced by a set_engine without params.
C13_Witness ==
    /\ last.op = "set_engine"
    /\ last.kwargs = << >>
    /\ last.prior # {}

\* The calls that change the document.
Mutators ==
    {"set_login", "set_driver", "set_engine", "set_conf", "update_conf",
     "set_key", "update_key", "del_key", "reset_conf"}

\* C14: whenever a mutating call of the Engine or of the ConfHandler has
\* returned, the file exists and holds the JSON of the whole in-memory
\* document.
C14_WriteThrough ==
    (last.op \in Mutators /\ ("raised" \in DOMAIN last => ~last.raised))
        => /\ file = Saved(conf)
           /\ LoadConf(file) = conf

\* A key was deleted from a document of several keys, one of them holding a
\* character json.dump escapes.
C14_Witness ==
    /\ last.op = "del_key"
    /\ ~last.raised
    /\ last.key \in DOMAIN last.confBefore
    /\ "v2" \in DOMAIN conf
    /\ IsDict(conf["v2"])
    /\ \E k \in DOMAIN conf["v2"] : conf["v2"][k] = <<233>>

\* C15: at most one thread at a time is between the start of its update of
\* the in-memory document and the end of its save.
C15_ExclusiveMutation ==
    Cardinality({t \in Threads : pc[t] \in {"save", "save_evict"}}) <= 1

\* C16: a new Engine constructed over the file answers list_logins,
\* get_login_json, list_drivers, list_engines and get_engine_json as the
\* Engine that wrote the file did, and its session cache is empty.
C16_PersistenceRoundTrip ==
    last.op = "new_engine"
        => /\ ListLogins(conf) = last.logins
           /\ \A n \in LoginNames \cup {N_eacute} :
                  GetLoginJson(conf, n) = last.loginJson[n]
           /\ ListDrivers(conf, variant) = last.drivers
           /\ ListEngines(conf) = last.engines
           /\ \A s \in Sources :
                  GetEngineJson(conf, variant, s) = last.engineJson[s]
           /\ sessions = << >>

\* An Engine with an open session, an engine definition, a template and a
\* login stored in plain text whose password is U+1F600 was replaced by a new
\* Engine over its file.
C16_Witness ==
    /\ last.op = "new_engine"
    /\ last.cached # {}
    /\ S_x \in last.engines
    /\ DOMAIN last.drivers # {}
    /\ N_eacute \in last.logins
    /\ ~StoredIsEncode(conf.login[N_eacute])
    /\ conf.login[N_eacute].password = <<128512>>

\* C17: from_sql never propagates a failure: when get_engine raises or
\* returns no connection, or the query fails, it returns None.
C17_FromSqlNeverRaises ==
    (last.op = "from_sql" /\ last.failure # "none")
        => ~last.raised /\ last.ret = "None"

\* C18: a to_sql of n rows with chunksize b that succeeds issues the write
\* in ceil(n/b) chunks, all of b rows except possibly the last, when n > b,
\* and in one unchunked write when n <= b.
C18_ChunkedWrite ==
    (last.op = "to_sql" /\ last.failure = "none")
        => LET n == last.n
               b == last.chunksize
               k == (n + b - 1) \div b
           IN  IF n > b
               THEN /\ last.chunked
                    /\ Len(last.inserts) = k
                    /\ \A i \in 1..(k - 1) : last.inserts[i] = b
                    /\ last.inserts[k] = n - (k - 1) * b
               ELSE /\ ~last.chunked
                    /\ last.inserts = IF n = 0 THEN << >> ELSE <<n>>

\* C19: to_sql never propagates a failure, returns no value, and leaves the
\* configuration document and its file as they were.
C19_ToSqlNeverRaises ==
    last.op = "to_sql"
        => /\ ~last.raised
           /\ last.ret = "None"
           /\ conf = last.confBefore
           /\ file = last.fileBefore

\* A chunked write failed after its first chunk was written.
C19_Witness ==
    /\ last.op = "to_sql"
    /\ last.failure = "write"
    /\ last.chunked
    /\ Len(last.inserts) >= 1

\* C20: a get_engine whose liveness probe fails or whose create_engine fails
\* does not raise, and unless it constructed a new handle the cache holds no
\* entry for the source afterwards.
C20_ConnectionErrorsEvict ==
    (last.op = "get_engine" /\ (last.probe = "fail" \/ last.raised = "create"))
        => /\ last.raised # "create"
           /\ ~last.built => last.arg \notin DOMAIN sessions

\* C21: a failed liveness probe is not propagated: is_active returns False
\* and leaves the cache alone, and get_engine goes on to build the connection
\* string of the current definition; when the string is built and the handle
\* constructed, the new handle replaces the cached one and is returned.
C21_ProbeFailureNotPropagated ==
    /\ (last.op = "is_active" /\ last.probe = "fail")
           => last.ret = FALSE /\ sessions = last.cacheBefore
    /\ (last.op = "get_engine" /\ last.probe = "fail"
           /\ Truthy(last.driver) /\ BuildUrl(conf, variant, last.arg).ok)
           => /\ last.url = BuildUrl(conf, variant, last.arg).val
              /\ last.raised \in {"no", "create"}
              /\ last.raised = "no"
                    => /\ last.built
                       /\ last.ret # last.cacheBefore[last.arg]
                       /\ sessions[last.arg] = last.ret
                       /\ \A s \in DOMAIN last.cacheBefore :
                              last.cacheBefore[s] # last.ret

\* A dead cached handle was replaced by a new one.
C21_Witness ==
    /\ last.op = "get_engine"
    /\ last.probe = "fail"
    /\ last.built

\* C22: is_active(source) returns True exactly when the cache holds an entry
\* for source and the probe on it succeeds, False for a source without entry,
\* and leaves the cache as it was.
C22_IsActiveIff ==
    last.op = "is_active"
        => /\ last.ret = (last.arg \in DOMAIN last.cacheBefore /\ last.probe = "ok")
           /\ (last.arg \notin DOMAIN last.cacheBefore => last.ret = FALSE)
           /\ sessions = last.cacheBefore

\* is_active found a dead session while the other source has a session too.
C22_Witness ==
    /\ last.op = "is_active"
    /\ last.probe = "fail"
    /\ Cardinality(DOMAIN sessions) = 2

\* C26: update_key (pyml_utils) and set_key (ml_utils) do not raise; when the
\* stored value of the key and the new value are both mappings the stored
\* mapping becomes their shallow merge, entries of the new value winning; in
\* every other case the key holds exactly the new value; every other
\* top-level key keeps its value.
C26_UpdateKeyShallowMerge ==
    (last.op = "update_key" \/ (variant = "ml_utils" /\ last.op = "set_key"))
        => /\ ~last.raised
           /\ DOMAIN conf = DOMAIN last.confBefore \cup {last.key}
           /\ \A k \in DOMAIN last.confBefore \ {last.key} :
                  conf[k] = last.confBefore[k]
           /\ IF /\ last.key \in DOMAIN last.confBefore
                 /\ IsDict(last.confBefore[last.key])
                 /\ IsDict(last.value)
              THEN /\ DOMAIN conf[last.key] =
                         DOMAIN last.confBefore[last.key] \cup DOMAIN last.value
                   /\ \A f \in DOMAIN conf[last.key] :
                          conf[last.key][f] =
                              IF f \in DOMAIN last.value THEN last.value[f]
                              ELSE last.confBefore[last.key][f]
              ELSE conf[last.key] = last.value

\* The merge and the replacement of C26 wherever the call did not raise.
C26_MergeUnlessRaised ==
    (last.op \in {"update_key", "set_key"} /\ last.raised)
        \/ C26_UpdateKeyShallowMerge

\* {'a': '1', 'b': '3'} was updated with {'c': e-acute, 'b': '2'}.
C26_MergeHappened ==
    /\ last.op \in {"update_key", "set_key"}
    /\ ~last.raised
    /\ last.key \in DOMAIN conf
    /\ DOMAIN conf[last.key] = {<<97>>, <<98>>, <<99>>}
    /\ conf[last.key][<<98>>] = <<50>>
    /\ conf[last.key][<<97>>] = <<49>>

\* C27: get_key(key, ret) does not raise, returns the stored value of a key
\* that is present and ret otherwise, and changes neither the document nor
\* the file, whatever the handler was constructed over.
C27_GetKeyNeverRaises ==
    last.op = "get_key"
        => /\ ~last.raised
           /\ last.ret = IF last.key \in DOMAIN last.confBefore
                         THEN last.confBefore[last.key] ELSE last.default
           /\ conf = last.confBefore
           /\ file = last.fileBefore

\* get_key answers as C27 says whenever the handler holds a document.
C27_GetKeyOverDocument ==
    (last.op = "get_key" /\ ~IsConfNone(last.confBefore))
        => C27_GetKeyNeverRaises

\* The document holds the template collection of the other package.
OtherVariantKeyPresent == TmplKey(OtherVariant(variant)) \in DOMAIN conf

\* The operations that call get_engine.
Connecting == {"get_engine", "from_sql", "to_sql"}

\* C23: no step of any Engine operation removes a login name, a driver name
\* or an engine source from the document, and every login, template and
\* definition other than the one a setter names keeps its value.
C23_NeverImplicitlyDeleted ==
    [][ /\ ListLogins(conf) \subseteq ListLogins(conf')
        /\ DOMAIN ListDrivers(conf, variant) \subseteq DOMAIN ListDrivers(conf', variant)
        /\ ListEngines(conf) \subseteq ListEngines(conf')
        /\ \A n \in ListLogins(conf) :
               \/ last'.op = "set_login" /\ last'.arg = n
               \/ conf'.login[n] = conf.login[n]
        /\ \A d \in DOMAIN ListDrivers(conf, variant) :
               \/ last'.op = "set_driver" /\ last'.arg = d
               \/ ListDrivers(conf', variant)[d] = ListDrivers(conf, variant)[d]
        /\ \A s \in ListEngines(conf) :
               \/ last'.op = "set_engine" /\ last'.arg = s
               \/ conf'.engine[s] = conf.engine[s]
      ]_vars

\* A setter has just run on a document that holds two logins, two templates
\* and two definitions.
C23_Witness ==
    /\ last.op \in {"set_login", "set_driver", "set_engine"}
    /\ Cardinality(ListLogins(conf)) = 2
    /\ Cardinality(DOMAIN ListDrivers(conf, variant)) = 2
    /\ Cardinality(ListEngines(conf)) = 2

\* C24: the cache is empty after construction, and a step gives source s a
\* new cache entry only when it is get_engine(s), from_sql(s) or to_sql(s),
\* the definition of s has a driver, and create_engine returned the handle
\* that is stored; no setter, list_* or get_*_json does.
C24_LazySessions ==
    /\ sessions = << >>
    /\ [][ \A s \in DOMAIN sessions' :
               (s \notin DOMAIN sessions \/ sessions'[s] # sessions[s])
                   => /\ last'.op \in Connecting
                      /\ last'.arg = s
                      /\ Truthy(EngineDriver(conf, variant, s))
                      /\ created' = created + 1
                      /\ sessions'[s] = created'
          ]_vars

\* from_sql or to_sql has just opened the session of its source.
C24_Witness ==
    /\ last.op \in {"from_sql", "to_sql"}
    /\ last.arg \notin DOMAIN last.cacheBefore
    /\ last.arg \in DOMAIN sessions

\* C30: a step changes nothing but the entry its operation names: set_login
\* the login, set_driver the template, set_engine the definition and the
\* cache entry, get_engine, from_sql and to_sql the cache entry; every other
\* login, template, definition and cached handle stays, and only the
\* setters change the document.
C30_Confinement ==
    [][ /\ \A n \in ListLogins(conf) \cup ListLogins(conf') :
               \/ last'.op = "set_login" /\ last'.arg = n
               \/ /\ n \in ListLogins(conf) \cap ListLogins(conf')
                  /\ conf'.login[n] = conf.login[n]
        /\ \A d \in DOMAIN ListDrivers(conf, variant)
                     \cup DOMAIN ListDrivers(conf', variant) :
               \/ last'.op = "set_driver" /\ last'.arg = d
               \/ /\ d \in DOMAIN ListDrivers(conf, variant)
                  /\ d \in DOMAIN ListDrivers(conf', variant)
                  /\ ListDrivers(conf', variant)[d] = ListDrivers(conf, variant)[d]
        /\ \A s \in ListEngines(conf) \cup ListEngines(conf') :
               \/ last'.op = "set_engine" /\ last'.arg = s
               \/ /\ s \in ListEngines(conf) \cap ListEngines(conf')
                  /\ conf'.engine[s] = conf.engine[s]
        /\ \A s \in DOMAIN sessions \cup DOMAIN sessions' :
               \/ last'.op \in Connecting \cup {"set_engine"} /\ last'.arg = s
               \/ /\ s \in DOMAIN sessions \cap DOMAIN sessions'
                  /\ sessions'[s] = sessions[s]
        /\ DOMAIN conf' = DOMAIN conf
        /\ last'.op \notin {"set_login", "set_driver", "set_engine"}
               => conf' = conf /\ file' = file
      ]_vars

\* set_engine has just evicted the session of its source while the other
\* source keeps its own.
C30_Witness ==
    /\ last.op = "set_engine"
    /\ last.cached # NoHandle
    /\ last.arg \notin DOMAIN sessions
    /\ DOMAIN sessions # {}

\* C28: in pyml_utils every source with a cached handle has a definition
\* whose driver is not empty, the handle was constructed from that very
\* definition, and no entry of a source outlives a set_engine of it.
C28_CachedFromCurrentDefinition ==
    variant = "pyml_utils"
        => /\ \A s \in DOMAIN sessions :
                  /\ s \in ListEngines(conf)
                  /\ Truthy(Get(conf.engine[s], K_driver))
                  /\ origin[sessions[s]] = conf.engine[s]
           /\ last.op = "set_engine" => last.arg \notin DOMAIN sessions

\* A source was redefined while it had a session, and get_engine has
\* constructed a new handle from the new definition.
C28_Witness ==
    /\ variant = "pyml_utils"
    /\ last.op = "get_engine"
    /\ last.built
    /\ last.stale # NoHandle
    /\ origin[last.stale] # conf.engine[last.arg]

\* C29: set_login and set_driver leave the session cache as it was, and a
\* get_engine that follows one of them and whose probe succeeds returns the
\* handle that was cached before the setter, without constructing one.
C29_SettersKeepSessions ==
    [][ /\ last'.op \in {"set_login", "set_driver"} => sessions' = sessions
        /\ (/\ last.op \in {"set_login", "set_driver"}
            /\ last'.op = "get_engine"
            /\ last'.probe = "ok")
               => /\ last'.arg \in DOMAIN last.cacheBefore
                  /\ last'.ret = last.cacheBefore[last'.arg]
                  /\ ~last'.built
                  /\ sessions' = last.cacheBefore
      ]_vars

\* The login or the template that the definition of a source with a session
\* refers to has just been set, and the session is still cached.
C29_Witness ==
    /\ last.op \in {"set_login", "set_driver"}
    /\ \E s \in DOMAIN last.cacheBefore :
           /\ s \in DOMAIN sessions
           /\ sessions[s] = last.cacheBefore[s]
           /\ \/ last.op = "set_login"
                 /\ Get(conf.engine[s], K_login) = last.arg
              \/ last.op = "set_driver"
                 /\ Get(conf.engine[s], K_driver) = last.arg

\* C25: over any document with the documented top-level keys, the one the
\* other package wrote included, get_driver, get_engine_json and get_engine
\* do not raise on a lookup; get_driver answers the default template for a
\* driver it does not know, get_engine_json and get_login_json the empty
\* mapping for a source or login they do not know, and get_engine of a
\* source without definition returns the cached handle or None.
C25_MissingConfigNeverRaises ==
    /\ last.op = "get_driver"
           => /\ ~last.raised
              /\ ~last.known => last.ret = DefaultUrl
    /\ last.op = "get_engine_json"
           => /\ ~last.raised
              /\ last.arg \notin ListEngines(conf) => last.ret = << >>
    /\ (last.op = "get_login_json" /\ ~last.known) => last.ret = << >>
    /\ last.op = "get_engine"
           => /\ last.raised # "config"
              /\ last.arg \notin ListEngines(conf)
                     => last.ret = SessionOf(sessions, last.arg)

\* The lookups answer as C25 says whenever the document holds the template
\* collection under the key of the package that reads it.
C25_OverOwnDocument ==
    DriverLookupRaises(conf, variant) \/ C25_MissingConfigNeverRaises

\* The template collection of the package was added to the other package's
\* document, and get_driver answered the default for an unknown driver.
C25_OwnDocumentReached ==
    /\ last.op = "get_driver"
    /\ ~last.raised
    /\ ~last.known
    /\ OtherVariantKeyPresent

=============================================================================
